---- MODULE Spec2Model ----
(***************************************************************************)
(* Model of src/csa.py, the Streamlit page "REAL-TIME CUSTOMER             *)
(* SEGMENTATION IN RETAIL MARKET".                                         *)
(*                                                                         *)
(* Streamlit runs the script top to bottom on every widget interaction.    *)
(* A script run started by the "Segment Customer" button is an invocation; *)
(* it blocks in requests.post (line 82) until the network answers, fails   *)
(* or times out, and then finishes the handler.  Every other interaction   *)
(* reruns the script with the button unpressed.                            *)
(*                                                                         *)
(* Python strings are TLA+ strings.  The pictographs of the source's       *)
(* messages are left out of the literals (the module is ASCII); the rest   *)
(* of each message is kept.  A screen element records the Streamlit call   *)
(* (w), the source line that issued it (line) and the rendered text.       *)
(***************************************************************************)
EXTENDS Integers, Sequences, FiniteSets, TLC

(***************************************************************************)
(* Bounds of the model.                                                    *)
(***************************************************************************)
\* longest uploaded file, in bytes
MaxFileLen == 3
\* script runs started by the user (widget interactions and button presses)
MaxRuns == 4

(***************************************************************************)
(* Inputs.                                                                 *)
(***************************************************************************)
\* values typed into the key field (line 15); "" is its default
KeySamples == {"", "test-key", " "}

\* choices of the guess radio the user makes (line 38)
GuessSamples == {"Deal Seeker", "Lost/Confused", "Checking Out"}

\* byte values of uploaded files: the two bytes of the JPEG magic, FF D8
ByteSamples == {255, 216}

FileSamples == UNION {[1..n -> ByteSamples] : n \in 1..MaxFileLen}

\* the value of uploaded_file when nothing is uploaded (line 18)
NoFile == <<>>

\* line 35-37
segment_options ==
  << "Deal Seeker", "Product Researcher", "Decisive Buyer", "Social Shopper",
     "Lost/Confused", "Assistance Needed", "Browsing Casually",
     "Comparing Products", "Purposeful Shopper", "Waiting/Idle", "Checking Out" >>

SegmentSet == {segment_options[i] : i \in DOMAIN segment_options}

\* line 104-116
segment_explanations ==
  [s \in SegmentSet |->
     CASE s = "Deal Seeker" -> "Looking for discounts, offers, or best deals."
       [] s = "Product Researcher" -> "Examining products in detail, comparing features."
       [] s = "Decisive Buyer" -> "Knows what they want, quick to purchase."
       [] s = "Social Shopper" -> "Shopping with friends/family, engaging socially."
       [] s = "Lost/Confused" -> "Appears unsure, may need assistance."
       [] s = "Assistance Needed" -> "Actively seeking help from staff."
       [] s = "Browsing Casually" -> "Leisurely browsing, not in a hurry."
       [] s = "Comparing Products" -> "Directly comparing two or more products."
       [] s = "Purposeful Shopper" -> "Focused, determined, and shopping with a clear goal in mind."
       [] s = "Waiting/Idle" -> "Waiting for someone or something, not actively shopping."
       [] s = "Checking Out" -> "At or near the checkout counter."]

(***************************************************************************)
(* base64 (line 31).  A byte is 0..255; the encoding is a sequence of      *)
(* characters of the standard alphabet, padded with "=".                   *)
(***************************************************************************)
B64Alphabet ==
  << "A","B","C","D","E","F","G","H","I","J","K","L","M","N","O","P",
     "Q","R","S","T","U","V","W","X","Y","Z","a","b","c","d","e","f",
     "g","h","i","j","k","l","m","n","o","p","q","r","s","t","u","v",
     "w","x","y","z","0","1","2","3","4","5","6","7","8","9","+","/" >>

B64Char(n) == B64Alphabet[n + 1]

B64Index(c) == (CHOOSE i \in DOMAIN B64Alphabet : B64Alphabet[i] = c) - 1

RECURSIVE b64encode(_)
b64encode(bytes) ==
  IF Len(bytes) = 0 THEN <<>>
  ELSE IF Len(bytes) = 1 THEN
    << B64Char(bytes[1] \div 4), B64Char((bytes[1] % 4) * 16), "=", "=" >>
  ELSE IF Len(bytes) = 2 THEN
    << B64Char(bytes[1] \div 4),
       B64Char((bytes[1] % 4) * 16 + bytes[2] \div 16),
       B64Char((bytes[2] % 16) * 4), "=" >>
  ELSE
    << B64Char(bytes[1] \div 4),
       B64Char((bytes[1] % 4) * 16 + bytes[2] \div 16),
       B64Char((bytes[2] % 16) * 4 + bytes[3] \div 64),
       B64Char(bytes[3] % 64) >> \o b64encode(SubSeq(bytes, 4, Len(bytes)))

RECURSIVE b64decode(_)
b64decode(chars) ==
  IF Len(chars) < 4 THEN <<>>
  ELSE
    LET a == B64Index(chars[1])
        b == B64Index(chars[2])
        rest == b64decode(SubSeq(chars, 5, Len(chars)))
    IN IF chars[3] = "=" THEN << a * 4 + b \div 16 >>
       ELSE IF chars[4] = "=" THEN
         << a * 4 + b \div 16, (b % 16) * 16 + B64Index(chars[3]) \div 4 >>
       ELSE
         << a * 4 + b \div 16,
            (b % 16) * 16 + B64Index(chars[3]) \div 4,
            (B64Index(chars[3]) % 4) * 64 + B64Index(chars[4]) >> \o rest

\* line 32: the f-string puts the fixed media-type prefix before the base64 text;
\* the URL is the sequence of the prefix followed by the base64 characters
DataUrlPrefix == "data:image/jpeg;base64,"

DataUrl(bytes) == << DataUrlPrefix >> \o b64encode(bytes)

\* the bytes a receiver recovers from a data URL
DataUrlBytes(url) == b64decode(Tail(url))

(***************************************************************************)
(* The upload stream (lines 22-30).  Image.open seeks to 0 and reads the   *)
(* header from the stream, st.image loads the pixel data from it, and      *)
(* neither rewinds: when line 30 runs, the position pos is past the first  *)
(* byte, anywhere up to the end of the file.  read() returns the bytes     *)
(* from the current position on.                                           *)
(***************************************************************************)
PositionsAfterImageOpen(file) == 1..Len(file)

read(file, pos) == SubSeq(file, pos + 1, Len(file))

(***************************************************************************)
(* Values of the response (lines 82-85, 119-120).  A Python value is its   *)
(* type t, its str() rendering v (what an f-string inserts) and its JSON   *)
(* text.                                                                   *)
(***************************************************************************)
PyStr(s) == [t |-> "str", v |-> s, json |-> "\"" \o s \o "\""]

\* a content that is a list of parts instead of a string
PartsContent ==
  [t |-> "list", v |-> "[{'type': 'text', 'text': 'Deal Seeker'}]",
   json |-> "[{\"type\":\"text\",\"text\":\"Deal Seeker\"}]"]

\* strings a model can return as content: the eleven labels, a padded, a
\* lower-cased and an empty one, and two outside the taxonomy
ContentStrings ==
  SegmentSet \cup {" Deal Seeker ", "deal seeker", "On a Mission", "Happy", ""}

ContentSamples == {PyStr(s) : s \in ContentStrings} \cup {PartsContent}

\* a body with choices[0].message.content = c: its text and what json() gives
WellFormedBody(c) ==
  [text |-> "{\"choices\":[{\"message\":{\"content\":" \o c.json \o "}}]}",
   json |-> [ok |-> TRUE,
             value |-> [choices |-> << [message |-> [content |-> c]] >>]]]

\* bodies json() cannot parse, or that lack choices, choices[0], message, content
MalformedBodies ==
  { [text |-> "<html>502 Bad Gateway</html>", json |-> [ok |-> FALSE]],
    [text |-> "{\"error\":{\"message\":\"Rate limit exceeded\"}}",
     json |-> [ok |-> TRUE,
               value |-> [error |-> [message |-> "Rate limit exceeded"]]]],
    [text |-> "{\"choices\":[]}",
     json |-> [ok |-> TRUE, value |-> [choices |-> <<>>]]],
    [text |-> "{\"choices\":[{\"finish_reason\":\"stop\"}]}",
     json |-> [ok |-> TRUE,
               value |-> [choices |-> << [finish_reason |-> "stop"] >>]]],
    [text |-> "{\"choices\":[{\"message\":{\"role\":\"assistant\"}}]}",
     json |-> [ok |-> TRUE,
               value |-> [choices |-> << [message |-> [role |-> "assistant"]] >>]]] }

BodySamples == MalformedBodies \cup {WellFormedBody(c) : c \in ContentSamples}

\* bodies sent along with a status other than 200
ErrorStatusBodies ==
  { [text |-> "{\"error\":{\"message\":\"No auth credentials found\"}}",
     json |-> [ok |-> TRUE,
               value |-> [error |-> [message |-> "No auth credentials found"]]]],
    WellFormedBody(PyStr("Deal Seeker")) }

StatusSamples == {200, 201, 401, 500}

ResponseSamples ==
  { [status_code |-> 200, text |-> b.text, json |-> b.json] : b \in BodySamples }
    \cup
  { [status_code |-> s, text |-> b.text, json |-> b.json] :
      s \in StatusSamples \ {200}, b \in ErrorStatusBodies }

\* the value of response before requests.post has returned one
NoResponse == [status_code |-> 0, text |-> "", json |-> [ok |-> FALSE]]

\* exceptions requests.post raises (line 82): type and str(e)
TimeoutExceptions ==
  { [type |-> "ReadTimeout",
     msg |-> "HTTPSConnectionPool(host='openrouter.ai', port=443): Read timed out. (read timeout=30)"],
    [type |-> "ConnectTimeout",
     msg |-> "HTTPSConnectionPool(host='openrouter.ai', port=443): Max retries exceeded (connect timeout=30)"] }

TransportExceptions ==
  { [type |-> "ConnectionError", msg |-> "Failed to resolve 'openrouter.ai'"],
    [type |-> "ConnectionError", msg |-> "Connection reset by peer"],
    [type |-> "SSLError", msg |-> "certificate verify failed"] }

\* the content with .strip() applied
Strip(s) == IF s = " Deal Seeker " THEN "Deal Seeker" ELSE s

\* line 121: the classes except requests.exceptions.Timeout catches
IsTimeout(e) == e.type \in {"Timeout", "ReadTimeout", "ConnectTimeout"}

\* an exception raised inside the try block: its class and str(e)
Raised(type, msg) == [exc |-> TRUE, type |-> type, msg |-> msg]

\* lines 84-85 with the content stripped of surrounding blanks
ExtractContentStripped(response) ==
  IF ~response.json.ok
    THEN Raised("JSONDecodeError", "Expecting value: line 1 column 1 (char 0)")
  ELSE LET result == response.json.value IN
    IF "choices" \notin DOMAIN result THEN Raised("KeyError", "'choices'")
    ELSE IF Len(result.choices) = 0
      THEN Raised("IndexError", "list index out of range")
    ELSE IF "message" \notin DOMAIN result.choices[1]
      THEN Raised("KeyError", "'message'")
    ELSE IF "content" \notin DOMAIN result.choices[1].message
      THEN Raised("KeyError", "'content'")
    ELSE LET c == result.choices[1].message.content
         IN [exc |-> FALSE, value |-> [c EXCEPT !.v = Strip(c.v)]]

\* lines 84-85 written with .get() and defaults, so that a missing key gives
\* an empty label instead of an exception
ExtractContentLenient(response) ==
  IF ~response.json.ok
    THEN Raised("JSONDecodeError", "Expecting value: line 1 column 1 (char 0)")
  ELSE LET result == response.json.value IN
    IF \/ "choices" \notin DOMAIN result
       \/ Len(result.choices) = 0
       \/ "message" \notin DOMAIN result.choices[1]
       \/ "content" \notin DOMAIN result.choices[1].message
      THEN [exc |-> FALSE, value |-> [t |-> "str", v |-> "", json |-> "\"\""]]
      ELSE [exc |-> FALSE, value |-> result.choices[1].message.content]

\* line 84-85: result = response.json(); result['choices'][0]['message']['content'].
\* Either the content, or the exception the first failing step raises.
ExtractContent(response) ==
  IF ~response.json.ok
    THEN Raised("JSONDecodeError", "Expecting value: line 1 column 1 (char 0)")
  ELSE LET result == response.json.value IN
    IF "choices" \notin DOMAIN result THEN Raised("KeyError", "'choices'")
    ELSE IF Len(result.choices) = 0
      THEN Raised("IndexError", "list index out of range")
    ELSE IF "message" \notin DOMAIN result.choices[1]
      THEN Raised("KeyError", "'message'")
    ELSE IF "content" \notin DOMAIN result.choices[1].message
      THEN Raised("KeyError", "'content'")
    ELSE [exc |-> FALSE, value |-> result.choices[1].message.content]

(***************************************************************************)
(* State.                                                                  *)
(***************************************************************************)
VARIABLES
  api_key,        \* line 15: the key field
  uploaded_file,  \* line 18: the uploaded bytes, NoFile when none
  user_guess,     \* line 38: the selected radio option
  run,            \* number of script runs the user has started
  pressed,        \* line 40: what st.button returned in the current run
  phase,          \* "Idle", "InFlight", "Succeeded" or "Failed"
  image_data_url, \* line 32
  requests,       \* calls of requests.post made by the current run
  request,        \* what line 82 sent, NoRequest when nothing was sent
  response,       \* what line 82 returned
  segment,        \* line 85
  raised,         \* the exception that left the try block of lines 81-120
  screen          \* what the button handler and line 126 have shown

vars == << api_key, uploaded_file, user_guess, run, pressed, phase,
           image_data_url, requests, request, response, segment, raised, screen >>

Terminal == {"Succeeded", "Failed"}

NoUrl == <<>>

NoRequest == [method |-> "", url |-> "", authorization |-> "", image_url |-> NoUrl]

NoSegment == [t |-> "unset", v |-> "", json |-> ""]

NoException == [type |-> "", msg |-> ""]

Exception(e) == [type |-> e.type, msg |-> e.msg]

Shown(w, line, text) == [w |-> w, line |-> line, text |-> text]

(***************************************************************************)
(* The script, lines 20-126.                                               *)
(***************************************************************************)
\* a check against None, which the text field never returns, instead of line 41
HasCredentialNotNone(key) == TRUE

\* line 41: `not api_key` is true of the empty string only
HasCredential(key) == key # ""

\* lines 44-82: the one POST the handler sends
PostRequest(key, url) ==
  [method |-> "POST", url |-> "https://openrouter.ai/api/v1/chat/completions",
   authorization |-> "Bearer " \o key, image_url |-> url]

\* response.ok, true of every status below 400, instead of line 83
IsSuccessAnyOk(status_code) == status_code < 400

\* line 83
IsSuccess(status_code) == status_code = 200

\* the except clauses in the other order: the general one first
HandleExceptionGeneralFirst(e) ==
  [w |-> "error", line |-> 124, text |-> "An error occurred: " \o e.msg]

\* lines 121-124: the except clauses, in their order
HandleException(e) ==
  IF IsTimeout(e)
    THEN Shown("error", 122, "The request timed out. Please try again.")
    ELSE Shown("error", 124, "An error occurred: " \o e.msg)

\* line 90: a str compared with the content
GuessMatches(guess, seg) == seg.t = "str" /\ seg.v = guess

\* segment_explanations[segment] instead of .get(): an unknown label raises
ExplanationIndexed(seg) ==
  IF seg.t # "str" THEN Raised("TypeError", "unhashable type: '" \o seg.t \o "'")
  ELSE IF seg.v \in DOMAIN segment_explanations
    THEN [exc |-> FALSE, value |-> segment_explanations[seg.v]]
    ELSE Raised("KeyError", "'" \o seg.v \o "'")

\* line 117: dict.get hashes its key, which a list does not allow
Explanation(seg) ==
  IF seg.t # "str" THEN Raised("TypeError", "unhashable type: '" \o seg.t \o "'")
  ELSE [exc |-> FALSE,
        value |-> IF seg.v \in DOMAIN segment_explanations
                    THEN segment_explanations[seg.v]
                    ELSE "No description available."]

\* lines 97-101: building and drawing the pie raises nothing for two strings;
\* for a label that is no string either outcome is allowed
ChartOutcomes(seg) == IF seg.t = "str" THEN {FALSE} ELSE {FALSE, TRUE}

\* lines 86-117, after the content was extracted: what is shown, and whether
\* the try block ran to its end
RenderSegment(seg, guess, chartRaises) ==
  LET head == << Shown("success", 86, "Customer Segmented"),
                 Shown("markdown", 87, "### **Segment:** " \o seg.v) >>
      compared ==
        IF GuessMatches(guess, seg)
          THEN << Shown("balloons", 91, ""),
                  Shown("success", 92, "Your guess matches the AI's segmentation!") >>
          ELSE << Shown("info", 94, "The AI segmented this customer as: **" \o seg.v
                                     \o "**. You guessed: **" \o guess \o "**.") >>
      expl == Explanation(seg)
      chart == << Shown("plotly_chart", 101, "User Guess vs AI Segment") >>
      chartError == Raised("ValueError", "Invalid value for the 'labels' property of pie")
  IN IF chartRaises
       THEN [done |-> FALSE, raised |-> Exception(chartError),
             shown |-> head \o compared \o << HandleException(chartError) >>]
     ELSE IF expl.exc
       THEN [done |-> FALSE, raised |-> Exception(expl),
             shown |-> head \o compared \o chart \o << HandleException(expl) >>]
     ELSE [done |-> TRUE, raised |-> NoException,
           shown |-> head \o compared \o chart
             \o << Shown("markdown", 117, "**Segment meaning:** " \o expl.value) >>]

\* lines 20-42 and 125-126: one run of the script up to the request, with the
\* widgets holding key, file and guess, the button returning button, and the
\* upload stream at pos when line 30 reads it
StartRun(key, file, guess, button, pos) ==
  /\ api_key' = key
  /\ uploaded_file' = file
  /\ user_guess' = guess
  /\ run' = run + 1
  /\ response' = NoResponse
  /\ segment' = NoSegment
  /\ raised' = NoException
  /\ IF file = NoFile
       THEN /\ image_data_url' = NoUrl
            /\ pressed' = FALSE
            /\ screen' = << Shown("info", 126, "Please upload an image to begin.") >>
            /\ phase' = "Idle"
            /\ requests' = 0
            /\ request' = NoRequest
       ELSE /\ image_data_url' = DataUrl(read(file, pos))
            /\ pressed' = button
            /\ IF ~button
                 THEN /\ screen' = <<>>
                      /\ phase' = "Idle"
                      /\ requests' = 0
                      /\ request' = NoRequest
               ELSE IF ~HasCredential(key)
                 THEN /\ screen' = << Shown("error", 42,
                                        "Please enter your OpenRouter API key above.") >>
                      /\ phase' = "Failed"
                      /\ requests' = 0
                      /\ request' = NoRequest
               ELSE /\ screen' = <<>>
                    /\ phase' = "InFlight"
                    /\ requests' = 1
                    /\ request' = PostRequest(key, image_data_url')

\* where the upload stream stands when line 30 reads it
ReadPositions(file) == IF file = NoFile THEN {0} ELSE PositionsAfterImageOpen(file)

\* the user may act when no run is blocked in the request
UserMayAct == phase # "InFlight" /\ run < MaxRuns

(***************************************************************************)
(* Actions.                                                                *)
(***************************************************************************)
EnterApiKey ==
  /\ UserMayAct
  /\ \E k \in KeySamples \ {api_key}, pos \in ReadPositions(uploaded_file) :
       StartRun(k, uploaded_file, user_guess, FALSE, pos)

UploadFile ==
  /\ UserMayAct
  /\ \E f \in FileSamples \ {uploaded_file}, pos \in 1..MaxFileLen :
       /\ pos \in ReadPositions(f)
       /\ StartRun(api_key, f, user_guess, FALSE, pos)

\* the radio is not drawn without a file and starts again from its first option
RemoveFile ==
  /\ UserMayAct
  /\ uploaded_file # NoFile
  /\ StartRun(api_key, NoFile, segment_options[1], FALSE, 0)

SelectGuess ==
  /\ UserMayAct
  /\ uploaded_file # NoFile
  /\ \E g \in GuessSamples \ {user_guess}, pos \in ReadPositions(uploaded_file) :
       StartRun(api_key, uploaded_file, g, FALSE, pos)

\* line 40: the button is drawn only with a file uploaded
PressSegment ==
  /\ UserMayAct
  /\ uploaded_file # NoFile
  /\ \E pos \in ReadPositions(uploaded_file) :
       StartRun(api_key, uploaded_file, user_guess, TRUE, pos)

\* lines 82-120: requests.post returns a response
RespondHTTP ==
  /\ phase = "InFlight"
  /\ \E resp \in ResponseSamples :
       /\ response' = resp
       /\ IF IsSuccess(resp.status_code)
            THEN LET content == ExtractContent(resp) IN
                 IF content.exc
                   THEN /\ segment' = NoSegment
                        /\ raised' = Exception(content)
                        /\ screen' = << HandleException(content) >>
                        /\ phase' = "Failed"
                   ELSE \E chartRaises \in ChartOutcomes(content.value) :
                          LET r == RenderSegment(content.value, user_guess, chartRaises)
                          IN /\ segment' = content.value
                             /\ raised' = r.raised
                             /\ screen' = r.shown
                             /\ phase' = IF r.done THEN "Succeeded" ELSE "Failed"
            ELSE /\ segment' = NoSegment
                 /\ raised' = NoException
                 /\ screen' = << Shown("error", 119, "Failed to get response: "
                                                       \o ToString(resp.status_code)),
                                 Shown("code", 120, resp.text) >>
                 /\ phase' = "Failed"
  /\ UNCHANGED << api_key, uploaded_file, user_guess, run, pressed,
                  image_data_url, requests, request >>

\* the exception e leaves requests.post (line 82) and reaches lines 121-124
RaiseFromPost(e) ==
  /\ raised' = Exception(e)
  /\ screen' = << HandleException(e) >>
  /\ phase' = "Failed"
  /\ UNCHANGED << api_key, uploaded_file, user_guess, run, pressed,
                  image_data_url, requests, request, response, segment >>

\* a timeout answered by sending the request again
RequestTimedOutRetried ==
  /\ phase = "InFlight"
  /\ requests' = requests + 1
  /\ UNCHANGED << api_key, uploaded_file, user_guess, run, pressed, phase,
                  image_data_url, request, response, segment, raised, screen >>

\* no answer within timeout=30
RequestTimedOut ==
  /\ phase = "InFlight"
  /\ \E e \in TimeoutExceptions : RaiseFromPost(e)

\* a transport failure swallowed: nothing is shown and the run ends as it began
TransportFailedSwallowed ==
  /\ phase = "InFlight"
  /\ phase' = "Idle"
  /\ UNCHANGED << api_key, uploaded_file, user_guess, run, pressed,
                  image_data_url, requests, request, response, segment,
                  raised, screen >>

\* DNS, connection reset, TLS
TransportFailed ==
  /\ phase = "InFlight"
  /\ \E e \in TransportExceptions : RaiseFromPost(e)

Init ==
  /\ api_key = ""
  /\ uploaded_file = NoFile
  /\ user_guess = segment_options[1]
  /\ run = 0
  /\ pressed = FALSE
  /\ phase = "Idle"
  /\ image_data_url = NoUrl
  /\ requests = 0
  /\ request = NoRequest
  /\ response = NoResponse
  /\ segment = NoSegment
  /\ raised = NoException
  /\ screen = << Shown("info", 126, "Please upload an image to begin.") >>

Next ==
  \/ EnterApiKey
  \/ UploadFile
  \/ RemoveFile
  \/ SelectGuess
  \/ PressSegment
  \/ RespondHTTP
  \/ RequestTimedOut
  \/ TransportFailed

Spec == Init /\ [][Next]_vars

\* requests.post returns or raises: the service answers, the transport fails,
\* or the timeout of line 82 fires
NetworkStep == RespondHTTP \/ RequestTimedOut \/ TransportFailed

FairSpec == Spec /\ WF_vars(NetworkStep)

(***************************************************************************)
(* Properties.                                                             *)
(***************************************************************************)
ErrorShown == \E i \in DOMAIN screen : screen[i].w = "error"

SuccessShown == \E i \in DOMAIN screen : screen[i].line = 86

\* C1: an invocation (the button pressed with an image uploaded) whose API
\* key is empty ends in the missing-credential error of line 42 and has sent
\* no request.
C1_MissingCredentialSendsNothing ==
  (pressed /\ api_key = "") =>
    /\ phase = "Failed"
    /\ screen = << Shown("error", 42, "Please enter your OpenRouter API key above.") >>
    /\ requests = 0
    /\ request = NoRequest

C1_Witness == pressed /\ api_key = "" /\ phase = "Failed" /\ requests = 0

\* C2: an invocation with a non-empty key has sent exactly one POST, while it
\* waits and in every terminal state, whatever the outcome.
C2_ExactlyOnePost ==
  (pressed /\ api_key # "") =>
    /\ phase \in {"InFlight"} \cup Terminal
    /\ requests = 1
    /\ request.method = "POST"

C2_Witness ==
  /\ pressed /\ api_key # "" /\ phase = "Failed" /\ requests = 1
  /\ raised.type = "ReadTimeout"

\* C3: after a 200 response whose body has choices[0].message.content, the
\* label produced is that value and the segment line shows it unchanged.
C3_LabelIsContentVerbatim ==
  \A c \in ContentSamples :
    (response.status_code = 200 /\ response.text = WellFormedBody(c).text) =>
      /\ segment = c
      /\ Len(screen) >= 2
      /\ screen[1] = Shown("success", 86, "Customer Segmented")
      /\ screen[2] = Shown("markdown", 87, "### **Segment:** " \o c.v)

C3_Witness ==
  /\ response.status_code = 200
  /\ response.text = WellFormedBody(PyStr(" Deal Seeker ")).text
  /\ segment.v = " Deal Seeker "
  /\ screen[2].text = "### **Segment:**  Deal Seeker "

\* C4: after a response whose status is not 200 the run has failed with the
\* status code and the raw body shown, and no label was produced.
C4_RemoteErrorCarriesStatusAndBody ==
  (response # NoResponse /\ response.status_code # 200) =>
    /\ phase = "Failed"
    /\ segment = NoSegment
    /\ ~SuccessShown
    /\ screen = << Shown("error", 119, "Failed to get response: "
                                         \o ToString(response.status_code)),
                   Shown("code", 120, response.text) >>

C4_Witness ==
  /\ response.status_code = 201
  /\ response.text = WellFormedBody(PyStr("Deal Seeker")).text
  /\ phase = "Failed"
  /\ screen[1].text = "Failed to get response: 201"

\* a 200 response whose body json() cannot parse or that lacks a key of the path
Malformed200 ==
  /\ response.status_code = 200
  /\ \E b \in MalformedBodies : response.text = b.text

\* str(e) of the failure each malformed body runs into
ParseFailureText ==
  CASE response.text = "<html>502 Bad Gateway</html>"
         -> "Expecting value: line 1 column 1 (char 0)"
    [] response.text = "{\"error\":{\"message\":\"Rate limit exceeded\"}}" -> "'choices'"
    [] response.text = "{\"choices\":[]}" -> "list index out of range"
    [] response.text = "{\"choices\":[{\"finish_reason\":\"stop\"}]}" -> "'message'"
    [] response.text = "{\"choices\":[{\"message\":{\"role\":\"assistant\"}}]}" -> "'content'"
    [] OTHER -> ""

C6_TimeoutAndTransportApart ==
  /\ raised \in TimeoutExceptions =>
       /\ phase = "Failed"
       /\ screen = << Shown("error", 122, "The request timed out. Please try again.") >>
       /\ segment = NoSegment
  /\ raised \in TransportExceptions =>
       /\ phase = "Failed"
       /\ screen = << Shown("error", 124, "An error occurred: " \o raised.msg) >>
       /\ segment = NoSegment

C6_Witness ==
  /\ raised.type = "ConnectTimeout"
  /\ phase = "Failed"
  /\ screen[1].line = 122

\* C7: the base64 text of the data URL, as computed by the run and as placed
\* in the request, decodes to the whole uploaded file.
C7_DataUrlRoundTrip ==
  /\ uploaded_file # NoFile => DataUrlBytes(image_data_url) = uploaded_file
  /\ request # NoRequest => DataUrlBytes(request.image_url) = uploaded_file

\* C8: no state of an invocation shows both the success output and an error.
C8_LabelOrErrorNeverBoth == ~(SuccessShown /\ ErrorShown)

\* C9: a run that sent its request waits (InFlight) until one step takes it to
\* a terminal state, which it reaches if the network answers, fails or times
\* out; once terminal, the phase of that run does not change again.
C9_InFlightToOneTerminal ==
  /\ (phase = "InFlight") ~> (phase \in Terminal)
  /\ [][phase = "InFlight" => (phase' \in Terminal /\ run' = run)]_vars
  /\ [][(phase \in Terminal /\ run' = run) => phase' = phase]_vars
  /\ [][(phase # "InFlight" /\ phase' = "InFlight") =>
          (run' = run + 1 /\ pressed' /\ requests' = 1)]_vars

C9_Witness ==
  /\ phase = "Succeeded" /\ requests = 1 /\ pressed
  /\ screen[Len(screen)].line = 117

\* C10: whatever string the content is, inside the eleven labels or not, the
\* invocation succeeds and shows it unchanged; the explanation is the entry of
\* a known label and "No description available." for any other string.
C10_LabelNotValidated ==
  \A s \in ContentStrings :
    (response.status_code = 200 /\ response.text = WellFormedBody(PyStr(s)).text) =>
      /\ phase = "Succeeded"
      /\ ~ErrorShown
      /\ screen[2] = Shown("markdown", 87, "### **Segment:** " \o s)
      /\ screen[Len(screen)] =
           Shown("markdown", 117, "**Segment meaning:** " \o
             (IF s \in SegmentSet THEN segment_explanations[s]
                                  ELSE "No description available."))

C10_Witness ==
  /\ response.status_code = 200
  /\ response.text = WellFormedBody(PyStr("On a Mission")).text
  /\ phase = "Succeeded"
  /\ screen[Len(screen)].text = "**Segment meaning:** No description available."

====
